---- MODULE Spec2Model ----
(***************************************************************************)
(* Reservation / capacity / tracking-code lifecycle of the cargo           *)
(* marketplace: the Postgres schema, triggers and row-level-security       *)
(* policies of supabase/migrations, and the page handlers that call them   *)
(* (ReservationModal.handleSubmit, AdminDashboard offer handlers).         *)
(*                                                                         *)
(* A database statement together with the triggers it fires is one         *)
(* transaction, hence one step.  An async handler is split at its await.   *)
(***************************************************************************)
EXTENDS Integers, Sequences, FiniteSets, TLC

\* ---------------------------------------------------------------- bounds
MaxKilos  == 2      \* kilo amounts typed into forms and payloads: 0..MaxKilos
MaxOffers == 1      \* cargo_offers rows ever inserted
MaxRes    == 2      \* reservations rows ever inserted
CodeLen   == 1      \* symbols after the "KG-" prefix (8 in the migration)
MaxHist   == 2      \* status_history rows kept in the model
MaxTime   == 1      \* ticks of the database clock
MaxListed == 2      \* cargo_offers rows behind the Offers page
MaxSearches == 2    \* handleSearch calls of the Track page

\* ------------------------------------------------------- users and roles
Users == {"u1", "u2", "adm"}

\* auth.users rows with the user_roles rows handle_new_user gives them,
\* plus the admin role of "adm".
user_roles ==
  {<<"u1", "user">>, <<"u2", "user">>, <<"adm", "user">>, <<"adm", "admin">>}

has_role(_user_id, _role) == <<_user_id, _role>> \in user_roles

\* ----------------------------------------------------------- value sets
shipment_status ==
  <<"pending_submission", "received_at_origin", "in_transit",
    "arrived_at_destination", "delivered">>

Statuses == {shipment_status[i] : i \in 1..Len(shipment_status)}

Null == <<>>                       \* SQL NULL of a TEXT column

Default == "DEFAULT"               \* a column the payload leaves out

\* the alphabet of generate_tracking_code, cut to its first two symbols
chars == <<"A", "B">>

CodePrefix == <<"K", "G", "-">>

\* Every value generate_tracking_code() can return: 'KG-' followed by
\* CodeLen symbols, each chars[floor(random() * length(chars) + 1)].
generate_tracking_code ==
  {CodePrefix \o [i \in 1..CodeLen |-> chars[ix[i]]] :
     ix \in [1..CodeLen -> 1..Len(chars)]}

\* A text no issuer produces, which a caller may still put in a payload.
ForeignCode == <<"x">>

CodeInputs == generate_tracking_code \cup {ForeignCode}

KiloInputs == 0..MaxKilos

\* Texts are sequences of one-character strings; dates are day numbers.
\* Departure cities and dates of the offers
Cities == {<<"A", "b">>, <<"B", "a">>}
DepartureDates == {1, 2}

OfferIds == 1..MaxOffers
ResIds   == 1..MaxRes

\* ----------------------------------------------------------------- state
VARIABLES
  cargo_offers,    \* table: id -> [departure_city, departure_country,
                   \*   arrival_city, arrival_country, departure_date,
                   \*   total_kilos, available_kilos, is_active]
  reservations,    \* table: id -> [user_id, cargo_offer_id, kilos_reserved,
                   \*               status, tracking_code, status_updated_at]
  status_history,  \* table, in insertion order:
                   \*   <<[reservation_id, status, notes]>>
  offerSeq,        \* cargo_offers ids handed out so far (gen_random_uuid)
  resSeq,          \* reservations ids handed out so far (gen_random_uuid)
  issued,          \* history variable: the tracking codes of all reservations
                   \*   rows ever inserted, deleted ones included
  modal,           \* per client, ReservationModal's offer prop (offer = 0: null)
  kilos,           \* per client, ReservationModal's kilos state
  isSubmitting,    \* per client, ReservationModal's isSubmitting state
  editingOffer,    \* AdminDashboard: id of editingOffer, 0 for null
  offerForm,       \* AdminDashboard: offerForm
  offerModalOpen,  \* AdminDashboard: offerModalOpen
  recent,          \* history variable: what the latest database statement
                   \*   did to a reservation (see Reserved, Cancelled, Updated)
  now,             \* the database clock, now()
  offers,          \* Offers page: offers, the rows of the latest fetch
  searchTerm,      \* Offers page: searchTerm
  selectedReservation, \* AdminDashboard: id of selectedReservation, 0 for null
  newStatus,       \* AdminDashboard: newStatus
  isSaving,        \* AdminDashboard: isSaving
  reservation,     \* Track: reservation, NotFound for null
  error,           \* Track: error, <<message>> or Null for null
  isLoading,       \* Track: isLoading
  searched,        \* Track: searched
  searches,        \* Track: the handleSearch calls waiting at their await
  searchSeq,       \* Track: handleSearch calls started so far
  latest           \* history variable: what the handleSearch call started
                   \*   last got back, NotFound until then

dbVars    == <<cargo_offers, reservations, status_history, offerSeq, resSeq, issued,
              recent, now>>
modalVars == <<modal, kilos, isSubmitting>>
adminVars == <<editingOffer, offerForm, offerModalOpen>>
offersVars == <<offers, searchTerm>>
statusVars == <<selectedReservation, newStatus, isSaving>>
trackVars == <<reservation, error, isLoading, searched, searches, searchSeq, latest>>
pageVars  == <<offersVars, statusVars, trackVars>>
vars      == <<dbVars, modalVars, adminVars, pageVars>>

Clients == {"u1", "u2"}

\* recent: the latest statement inserted reservation id, whose offer had
\* pre available_kilos before it ...
Reserved(id, offer, pre) == [what |-> "reserved", id |-> id, offer |-> offer, pre |-> pre]

\* ... or deleted the reservation the statement just before it had inserted
Cancelled(id, offer, pre) == [what |-> "cancelled", id |-> id, offer |-> offer, pre |-> pre]

\* ... or was UPDATE reservations SET status = ... on reservation id, whose
\* status was pre before it
Updated(id, pre) == [what |-> "updated", id |-> id, offer |-> 0, pre |-> pre]

\* ... or was any other statement
Other == [what |-> "other", id |-> 0, offer |-> 0, pre |-> 0]

\* ------------------------------------------------------- table helpers
EmptyTable == [x \in {} |-> 0]

Put(t, k, v) == [x \in DOMAIN t \cup {k} |-> IF x = k THEN v ELSE t[x]]

Remove(t, ks) == [x \in DOMAIN t \ ks |-> t[x]]

\* ------------------------------------------------------------- triggers
\* BEFORE INSERT ON reservations: the tracking_code of NEW.
set_tracking_code(new_code, draw) ==
  IF new_code = Null THEN draw ELSE new_code

\* update_available_kilos without its INSERT branch
update_available_kilos_delete_only(tbl, tg_op, row) ==
  LET o == row.cargo_offer_id IN
  IF o \notin DOMAIN tbl THEN tbl
  ELSE IF tg_op = "DELETE"
    THEN [tbl EXCEPT ![o].available_kilos = @ + row.kilos_reserved]
  ELSE tbl

\* update_available_kilos without its DELETE branch
update_available_kilos_insert_only(tbl, tg_op, row) ==
  LET o == row.cargo_offer_id IN
  IF o \notin DOMAIN tbl THEN tbl
  ELSE IF tg_op = "INSERT"
    THEN [tbl EXCEPT ![o].available_kilos = @ - row.kilos_reserved]
  ELSE tbl

\* AFTER INSERT OR DELETE ON reservations: the cargo_offers table after it.
\* An UPDATE ... WHERE id = x on a missing row changes nothing.
update_available_kilos(tbl, tg_op, row) ==
  LET o == row.cargo_offer_id IN
  IF o \notin DOMAIN tbl THEN tbl
  ELSE IF tg_op = "INSERT"
    THEN [tbl EXCEPT ![o].available_kilos = @ - row.kilos_reserved]
  ELSE IF tg_op = "DELETE"
    THEN [tbl EXCEPT ![o].available_kilos = @ + row.kilos_reserved]
  ELSE tbl

\* log_status_change without its IS DISTINCT FROM test
log_status_change_always(hist, id, old, new) ==
  [history |-> Append(hist, [reservation_id |-> id, status |-> new.status,
                             notes |-> Null]),
   row     |-> [new EXCEPT !.status_updated_at = now]]

\* log_status_change inserting OLD.status
log_status_change_old(hist, id, old, new) ==
  IF old.status # new.status
    THEN [history |-> Append(hist, [reservation_id |-> id, status |-> old.status,
                                    notes |-> Null]),
          row     |-> [new EXCEPT !.status_updated_at = now]]
    ELSE [history |-> hist, row |-> new]

\* BEFORE UPDATE ON reservations: the status_history table after it, and the
\* NEW row it returns.
log_status_change(hist, id, old, new) ==
  IF old.status # new.status
    THEN [history |-> Append(hist, [reservation_id |-> id, status |-> new.status,
                                    notes |-> Null]),
          row     |-> [new EXCEPT !.status_updated_at = now]]
    ELSE [history |-> hist, row |-> new]

\* ------------------------------------------------ row-level security
\* "Users can create reservations": WITH CHECK (auth.uid() = user_id)
reservations_insert_check(uid, new) == uid = new.user_id

\* "Admins can update reservations" OR "Users can update their pending
\* reservations"; an UPDATE policy without WITH CHECK applies its USING
\* expression to the new row as well.
reservations_update_policy(uid, row) ==
  \/ has_role(uid, "admin")
  \/ (uid = row.user_id /\ row.status = "pending_submission")

\* reservations has row-level security enabled and no DELETE policy.
reservations_delete_policy(uid, row) == FALSE

\* "Admins can create / update / delete cargo offers"
\* The same policies granted to every caller
cargo_offers_write_policy_all(uid) == TRUE

cargo_offers_write_policy(uid) == has_role(uid, "admin")

\* "Admins can insert status history"
status_history_insert_check(uid) == has_role(uid, "admin")

\* --------------------------------------------------- database statements
\* status_history.reservation_id without ON DELETE CASCADE
HistoryWithout_kept(hist, ids) == hist

\* ON DELETE CASCADE of status_history.reservation_id
HistoryWithout(hist, ids) ==
  SelectSeq(hist, LAMBDA h : h.reservation_id \notin ids)

\* The row an INSERT INTO reservations builds from its payload: column
\* defaults, then the BEFORE INSERT trigger.
NewReservation(payload, draw) ==
  [user_id        |-> payload.user_id,
   cargo_offer_id |-> payload.cargo_offer_id,
   kilos_reserved |-> payload.kilos_reserved,
   status         |-> IF payload.status = Default THEN "pending_submission"
                                               ELSE payload.status,
   tracking_code  |-> set_tracking_code(payload.tracking_code, draw),
   status_updated_at |-> now]

CodeTaken(table, code, except) ==
  /\ code # Null
  /\ \E r \in DOMAIN table \ except : table[r].tracking_code = code

\* The error an INSERT INTO reservations raises, "" for none.
InsertReservationError(uid, payload, draw) ==
  LET new == NewReservation(payload, draw) IN
  IF ~reservations_insert_check(uid, new) THEN "rls"
  ELSE IF new.cargo_offer_id \notin DOMAIN cargo_offers THEN "foreign_key"
  ELSE IF CodeTaken(reservations, new.tracking_code, {}) THEN "unique"
  ELSE ""

\* INSERT INTO reservations as uid, with its triggers, as one transaction:
\* on an error nothing is kept.
InsertReservation(uid, payload, draw) ==
  LET new == NewReservation(payload, draw)
      id  == resSeq + 1
      o   == new.cargo_offer_id
  IN  /\ resSeq < MaxRes
      /\ IF InsertReservationError(uid, payload, draw) = ""
           THEN /\ reservations' = Put(reservations, id, new)
                /\ cargo_offers' = update_available_kilos(cargo_offers, "INSERT", new)
                /\ resSeq' = id
                /\ issued' = issued \cup {new.tracking_code}
                /\ recent' = Reserved(id, o, cargo_offers[o].available_kilos)
                /\ UNCHANGED <<status_history, offerSeq, now>>
           ELSE UNCHANGED dbVars

\* DELETE FROM reservations WHERE id = id with row-level security bypassed
\* (the service role, or the cascade from auth.users): the row goes, its
\* status_history rows cascade, the AFTER DELETE trigger fires.
DeleteReservationRow(id) ==
  /\ id \in DOMAIN reservations
  /\ reservations' = Remove(reservations, {id})
  /\ status_history' = HistoryWithout(status_history, {id})
  /\ cargo_offers' = update_available_kilos(cargo_offers, "DELETE", reservations[id])
  /\ recent' = IF recent.what = "reserved" /\ recent.id = id
                 THEN Cancelled(id, recent.offer, recent.pre)
                 ELSE Other
  /\ UNCHANGED <<offerSeq, resSeq, issued, now>>

\* DELETE FROM reservations WHERE id = id as uid, under row-level security:
\* a row no DELETE policy admits is not seen, and no error is raised.
DeleteReservation(uid, id) ==
  IF id \in DOMAIN reservations /\ reservations_delete_policy(uid, reservations[id])
    THEN DeleteReservationRow(id)
    ELSE UNCHANGED dbVars

\* The error an UPDATE reservations SET ... WHERE id = id raises on the row
\* it admits, "" for none: WITH CHECK on the new row, then the constraints.
UpdateReservationError(uid, id, new) ==
  IF ~reservations_update_policy(uid, new) THEN "rls"
  ELSE IF new.cargo_offer_id \notin DOMAIN cargo_offers THEN "foreign_key"
  ELSE IF CodeTaken(reservations, new.tracking_code, {id}) THEN "unique"
  ELSE ""

\* UPDATE reservations SET col = val WHERE id = id as uid: USING picks the
\* row, BEFORE UPDATE logs a status change, WITH CHECK and the constraints
\* pass or the whole statement, the logged entry included, is undone.
UpdateReservation(uid, id, col, val) ==
  IF id \in DOMAIN reservations /\ reservations_update_policy(uid, reservations[id])
    THEN LET old  == reservations[id]
             trg  == log_status_change(status_history, id, old, [old EXCEPT ![col] = val])
             new  == trg.row
             hist == trg.history
         IN  /\ Len(hist) <= MaxHist
             /\ IF UpdateReservationError(uid, id, new) = ""
                  THEN /\ reservations' = [reservations EXCEPT ![id] = new]
                       /\ status_history' = hist
                       /\ recent' = IF col = "status" THEN Updated(id, old.status)
                                                      ELSE Other
                       /\ UNCHANGED <<cargo_offers, offerSeq, resSeq, issued, now>>
                  ELSE UNCHANGED dbVars
    ELSE UNCHANGED dbVars

\* INSERT INTO cargo_offers as uid; WITH CHECK refuses all but an admin
InsertOfferError(uid) == IF cargo_offers_write_policy(uid) THEN "" ELSE "rls"

InsertOffer(uid, row) ==
  /\ offerSeq < MaxOffers
  /\ IF InsertOfferError(uid) = ""
       THEN /\ cargo_offers' = Put(cargo_offers, offerSeq + 1, row)
            /\ offerSeq' = offerSeq + 1
            /\ recent' = Other
            /\ UNCHANGED <<reservations, status_history, resSeq, issued, now>>
       ELSE UNCHANGED dbVars

\* UPDATE cargo_offers SET ... WHERE id = id as uid
UpdateOffer(uid, id, row) ==
  IF id \in DOMAIN cargo_offers /\ cargo_offers_write_policy(uid)
    THEN /\ cargo_offers' = [cargo_offers EXCEPT ![id] = row]
         /\ recent' = Other
         /\ UNCHANGED <<reservations, status_history, offerSeq, resSeq, issued, now>>
    ELSE UNCHANGED dbVars

\* INSERT INTO status_history (reservation_id, status, notes) as uid
InsertHistory(uid, entry) ==
  /\ Len(status_history) <= MaxHist
  /\ IF status_history_insert_check(uid) /\ entry.reservation_id \in DOMAIN reservations
       THEN /\ status_history' = Append(status_history, entry)
            /\ recent' = Other
            /\ UNCHANGED <<cargo_offers, reservations, offerSeq, resSeq, issued, now>>
       ELSE UNCHANGED dbVars

\* The reservations rows of an offer
ReservationsOf(o) == {r \in DOMAIN reservations : reservations[r].cargo_offer_id = o}

\* DELETE FROM cargo_offers WHERE id = id as uid.  The delete cascades to the
\* offer's reservations and on to their status_history; the AFTER DELETE
\* trigger of each then updates an offer row that is already gone.
DeleteOffer(uid, id) ==
  IF id \in DOMAIN cargo_offers /\ cargo_offers_write_policy(uid)
    THEN /\ cargo_offers' = Remove(cargo_offers, {id})
         /\ reservations' = Remove(reservations, ReservationsOf(id))
         /\ status_history' = HistoryWithout(status_history, ReservationsOf(id))
         /\ recent' = Other
         /\ UNCHANGED <<offerSeq, resSeq, issued, now>>
    ELSE UNCHANGED dbVars

\* ------------------------------------------------------------------ Init
\* AdminDashboard.defaultOffer, with its 50 kilos scaled to the model's range
\* The kilo fields and is_active are the ones of defaultOffer; the places
\* and the date, blank in defaultOffer and required by the form, are as the
\* admin fills them in.
defaultOffer ==
  [departure_city    |-> <<"A", "b">>,
   departure_country |-> <<"X">>,
   arrival_city      |-> <<"B", "a">>,
   arrival_country   |-> <<"G", "a">>,
   departure_date    |-> 1,
   total_kilos       |-> MaxKilos,
   available_kilos   |-> MaxKilos,
   is_active         |-> TRUE]

NoModal == [offer |-> 0, available_kilos |-> 0]

Init ==
  /\ cargo_offers = EmptyTable
  /\ reservations = EmptyTable
  /\ status_history = <<>>
  /\ offerSeq = 0
  /\ resSeq = 0
  /\ issued = {}
  /\ modal = [u \in Clients |-> NoModal]
  /\ kilos = [u \in Clients |-> 1]
  /\ isSubmitting = [u \in Clients |-> FALSE]
  /\ editingOffer = 0
  /\ offerForm = defaultOffer
  /\ offerModalOpen = FALSE
  /\ recent = Other
  /\ now = 0
  /\ offers = <<>>
  /\ searchTerm = <<>>
  /\ selectedReservation = 0
  /\ newStatus = "pending_submission"
  /\ isSaving = FALSE
  /\ reservation = [found |-> FALSE]
  /\ error = Null
  /\ isLoading = FALSE
  /\ searched = FALSE
  /\ searches = {}
  /\ searchSeq = 0
  /\ latest = [found |-> FALSE]

\* ------------------------------------------- ReservationModal (a client)
\* Offers.fetchOffers (is_active = true, available_kilos > 0) and the
\* "reserve" click on one of its cards: the modal opens on the fetched row.
SelectOffer(u, o) ==
  /\ modal[u].offer = 0
  /\ o \in DOMAIN cargo_offers
  /\ cargo_offers[o].is_active
  /\ cargo_offers[o].available_kilos > 0
  /\ modal' = [modal EXCEPT ![u] =
                 [offer |-> o, available_kilos |-> cargo_offers[o].available_kilos]]
  /\ UNCHANGED <<dbVars, kilos, isSubmitting, adminVars, pageVars>>

Min(a, b) == IF a < b THEN a ELSE b
Max(a, b) == IF a > b THEN a ELSE b

\* the "-" button, the number input and the "+" button
KilosMinus(u) ==
  /\ modal[u].offer # 0 /\ ~isSubmitting[u]
  /\ kilos[u] > 1
  /\ kilos' = [kilos EXCEPT ![u] = Max(1, kilos[u] - 1)]
  /\ UNCHANGED <<dbVars, modal, isSubmitting, adminVars, pageVars>>

KilosInput(u, v) ==
  /\ modal[u].offer # 0 /\ ~isSubmitting[u]
  /\ kilos' = [kilos EXCEPT ![u] =
                 Min(modal[u].available_kilos, Max(1, IF v = 0 THEN 1 ELSE v))]
  /\ UNCHANGED <<dbVars, modal, isSubmitting, adminVars, pageVars>>

KilosPlus(u) ==
  /\ modal[u].offer # 0 /\ ~isSubmitting[u]
  /\ kilos[u] < modal[u].available_kilos
  /\ kilos' = [kilos EXCEPT ![u] = Min(modal[u].available_kilos, kilos[u] + 1)]
  /\ UNCHANGED <<dbVars, modal, isSubmitting, adminVars, pageVars>>

\* onClose: the "Annuler" button or the dialog's close
CloseModal(u) ==
  /\ modal[u].offer # 0 /\ ~isSubmitting[u]
  /\ modal' = [modal EXCEPT ![u] = NoModal]
  /\ UNCHANGED <<dbVars, kilos, isSubmitting, adminVars, pageVars>>

\* handleSubmit up to its await: the range check against the offer prop, then
\* setIsSubmitting(true) and the insert request leaves.
SubmitBegin(u) ==
  /\ modal[u].offer # 0 /\ ~isSubmitting[u]
  /\ IF kilos[u] < 1 \/ kilos[u] > modal[u].available_kilos
       THEN UNCHANGED isSubmitting
       ELSE isSubmitting' = [isSubmitting EXCEPT ![u] = TRUE]
  /\ UNCHANGED <<dbVars, modal, kilos, adminVars, pageVars>>

\* handleSubmit from its await on with setIsSubmitting(false) after the
\* success branch instead of in the finally block
SubmitEnd_no_finally(u, draw) ==
  /\ isSubmitting[u]
  /\ LET payload == [user_id        |-> u,
                     cargo_offer_id |-> modal[u].offer,
                     kilos_reserved |-> kilos[u],
                     status         |-> Default,
                     tracking_code  |-> Null]
     IN  /\ InsertReservation(u, payload, draw)
         /\ modal' = [modal EXCEPT ![u] =
                        IF InsertReservationError(u, payload, draw) = ""
                          THEN NoModal ELSE @]
         /\ isSubmitting' = [isSubmitting EXCEPT ![u] =
                               InsertReservationError(u, payload, draw) # ""]
  /\ UNCHANGED <<kilos, adminVars, pageVars>>

\* handleSubmit from its await on: the insert runs in the database, then
\* onClose() on success, the error toast otherwise, setIsSubmitting(false).
SubmitEnd(u, draw) ==
  /\ isSubmitting[u]
  /\ LET payload == [user_id        |-> u,
                     cargo_offer_id |-> modal[u].offer,
                     kilos_reserved |-> kilos[u],
                     status         |-> Default,
                     tracking_code  |-> Null]
     IN  /\ InsertReservation(u, payload, draw)
         /\ modal' = [modal EXCEPT ![u] =
                        IF InsertReservationError(u, payload, draw) = ""
                          THEN NoModal ELSE @]
  /\ isSubmitting' = [isSubmitting EXCEPT ![u] = FALSE]
  /\ UNCHANGED <<kilos, adminVars, pageVars>>

\* ----------------------------------------- AdminDashboard (the admin)
\* Only a signed-in admin stays on the page (the isAdmin guard).
Admin == "adm"

\* handleOpenOfferModal(offer?) on a row of the list fetchData has just
\* loaded; o = 0 is the "new offer" button.
handleOpenOfferModal(o) ==
  /\ ~offerModalOpen
  /\ o = 0 \/ o \in DOMAIN cargo_offers
  /\ editingOffer' = o
  /\ offerForm' = IF o = 0 THEN defaultOffer ELSE cargo_offers[o]
  /\ offerModalOpen' = TRUE
  /\ UNCHANGED <<dbVars, modalVars, pageVars>>

\* onChange of the "Total kilos" input
TotalKilosChange(v) ==
  /\ offerModalOpen
  /\ offerForm' = [offerForm EXCEPT
                     !.total_kilos = v,
                     !.available_kilos = IF editingOffer # 0 THEN @ ELSE v]
  /\ UNCHANGED <<dbVars, modalVars, editingOffer, offerModalOpen, pageVars>>

\* onChange of the "Disponibles" input
AvailableKilosChange(v) ==
  /\ offerModalOpen
  /\ offerForm' = [offerForm EXCEPT !.available_kilos = v]
  /\ UNCHANGED <<dbVars, modalVars, editingOffer, offerModalOpen, pageVars>>

\* The form's state is written afresh by every handleOpenOfferModal, so a
\* closed form is kept here in one canonical state.
FormClosed ==
  /\ editingOffer' = 0
  /\ offerForm' = defaultOffer
  /\ offerModalOpen' = FALSE

\* the "Annuler" button of the offer dialog
CloseOfferModal ==
  /\ offerModalOpen
  /\ FormClosed
  /\ UNCHANGED <<dbVars, modalVars, pageVars>>

\* handleSaveOffer: update of the edited row, or insert of a new one, with
\* every field of the form; the dialog closes unless the request failed.
handleSaveOffer ==
  /\ offerModalOpen
  /\ IF editingOffer # 0
       THEN UpdateOffer(Admin, editingOffer, offerForm)
       ELSE InsertOffer(Admin, offerForm)
  /\ IF editingOffer = 0 /\ InsertOfferError(Admin) # ""
       THEN UNCHANGED adminVars
       ELSE FormClosed
  /\ UNCHANGED <<modalVars, pageVars>>

\* handleDeleteOffer(id) on a listed row; confirmed is the answer to confirm()
handleDeleteOffer(o, confirmed) ==
  /\ o \in DOMAIN cargo_offers
  /\ IF confirmed
       THEN DeleteOffer(Admin, o)
       ELSE UNCHANGED dbVars
  /\ UNCHANGED <<modalVars, adminVars, pageVars>>

\* handleOpenStatusModal(reservation) on a listed row, the choice of any of
\* the five statuses in the dialog's Select, then handleUpdateStatus: the
\* update of the status column alone.  The row listed may be gone by then.
handleUpdateStatus(id, status) ==
  /\ id \in 1..resSeq
  /\ UpdateReservation(Admin, id, "status", status)
  /\ UNCHANGED <<modalVars, adminVars, pageVars>>

\* The same in its steps. handleOpenStatusModal(reservation) on a listed row
handleOpenStatusModal(id) ==
  /\ id \in DOMAIN reservations
  /\ ~isSaving
  /\ selectedReservation' = id
  /\ newStatus' = reservations[id].status
  /\ UNCHANGED <<dbVars, modalVars, adminVars, offersVars, trackVars, isSaving>>

\* onValueChange of the status Select
setNewStatus(v) ==
  /\ selectedReservation # 0
  /\ ~isSaving
  /\ newStatus' = v
  /\ UNCHANGED <<dbVars, modalVars, adminVars, offersVars, trackVars, selectedReservation, isSaving>>

\* handleUpdateStatus up to its await: setIsSaving(true) and the update
\* request leaves; the button is disabled while isSaving.
handleUpdateStatusBegin ==
  /\ selectedReservation # 0
  /\ ~isSaving
  /\ isSaving' = TRUE
  /\ UNCHANGED <<dbVars, modalVars, adminVars, offersVars, trackVars, selectedReservation, newStatus>>

\* handleUpdateStatus from its await on: the update runs in the database
\* (on no row when the reservation is gone), then setIsSaving(false).
handleUpdateStatusEnd ==
  /\ isSaving
  /\ UpdateReservation(Admin, selectedReservation, "status", newStatus)
  /\ isSaving' = FALSE
  /\ UNCHANGED <<modalVars, adminVars, offersVars, trackVars, selectedReservation, newStatus>>

\* time passes on the database clock
Tick ==
  /\ now < MaxTime
  /\ now' = now + 1
  /\ UNCHANGED <<cargo_offers, reservations, status_history, offerSeq, resSeq,
                 issued, recent, modalVars, adminVars, pageVars>>

\* ------------------------------------- requests made past the pages
\* Any signed-in user can send the client library's insert / update /
\* delete straight to the tables; row-level security is what answers.
ReservationPayloads ==
  [user_id        : Users,
   cargo_offer_id : OfferIds,
   kilos_reserved : KiloInputs,
   status         : {Default, "in_transit"},
   tracking_code  : {Null} \cup CodeInputs]

ApiInsertReservation(a, payload, draw) ==
  /\ InsertReservation(a, payload, draw)
  /\ UNCHANGED <<modalVars, adminVars, pageVars>>

ReservationColumnValues(col) ==
  CASE col = "status"         -> Statuses
    [] col = "tracking_code"  -> {Null} \cup CodeInputs
    [] col = "kilos_reserved" -> KiloInputs
    [] col = "cargo_offer_id" -> OfferIds
    [] col = "user_id"        -> Users

ReservationColumns ==
  {"status", "tracking_code", "kilos_reserved", "cargo_offer_id", "user_id"}

ApiUpdateReservation(a, id, col, val) ==
  /\ id \in DOMAIN reservations
  /\ UpdateReservation(a, id, col, val)
  /\ UNCHANGED <<modalVars, adminVars, pageVars>>

ApiDeleteReservation(a, id) ==
  /\ id \in DOMAIN reservations
  /\ DeleteReservation(a, id)
  /\ UNCHANGED <<modalVars, adminVars, pageVars>>

\* the reservation row is deleted outside row-level security
CancelReservation(id) ==
  /\ DeleteReservationRow(id)
  /\ UNCHANGED <<modalVars, adminVars, pageVars>>

OfferRows ==
  [departure_city    : {defaultOffer.departure_city},
   departure_country : {defaultOffer.departure_country},
   arrival_city      : {defaultOffer.arrival_city},
   arrival_country   : {defaultOffer.arrival_country},
   departure_date    : {defaultOffer.departure_date},
   total_kilos       : 1..MaxKilos,
   available_kilos   : KiloInputs,
   is_active         : BOOLEAN]

ApiInsertOffer(a, row) ==
  /\ InsertOffer(a, row)
  /\ UNCHANGED <<modalVars, adminVars, pageVars>>

OfferColumnValues(col) ==
  CASE col = "total_kilos"     -> 1..MaxKilos
    [] col = "available_kilos" -> KiloInputs
    [] col = "is_active"       -> BOOLEAN

OfferColumns == {"total_kilos", "available_kilos", "is_active"}

ApiUpdateOffer(a, id, col, val) ==
  /\ id \in DOMAIN cargo_offers
  /\ UpdateOffer(a, id, [cargo_offers[id] EXCEPT ![col] = val])
  /\ UNCHANGED <<modalVars, adminVars, pageVars>>

ApiDeleteOffer(a, id) ==
  /\ id \in DOMAIN cargo_offers
  /\ DeleteOffer(a, id)
  /\ UNCHANGED <<modalVars, adminVars, pageVars>>

HistoryEntries ==
  [reservation_id : ResIds, status : Statuses, notes : {Null}]

ApiInsertHistory(a, entry) ==
  /\ InsertHistory(a, entry)
  /\ UNCHANGED <<modalVars, adminVars, pageVars>>

\* ------------------------------------------------------------------ Next
ClientNext ==
  \/ \E u \in Clients, o \in OfferIds : SelectOffer(u, o)
  \/ \E u \in Clients : KilosMinus(u)
  \/ \E u \in Clients, v \in 0..MaxKilos : KilosInput(u, v)
  \/ \E u \in Clients : KilosPlus(u)
  \/ \E u \in Clients : CloseModal(u)
  \/ \E u \in Clients : SubmitBegin(u)
  \/ \E u \in Clients, draw \in generate_tracking_code : SubmitEnd(u, draw)

AdminNext ==
  \/ \E o \in 0..MaxOffers : handleOpenOfferModal(o)
  \/ \E v \in 1..MaxKilos : TotalKilosChange(v)
  \/ \E v \in KiloInputs : AvailableKilosChange(v)
  \/ CloseOfferModal
  \/ handleSaveOffer
  \/ \E o \in OfferIds, c \in BOOLEAN : handleDeleteOffer(o, c)
  \/ \E id \in ResIds, s \in Statuses : handleUpdateStatus(id, s)

ApiNext ==
  \/ \E a \in Users, p \in ReservationPayloads, draw \in generate_tracking_code :
       ApiInsertReservation(a, p, draw)
  \/ \E a \in Users, id \in ResIds, col \in ReservationColumns :
       \E val \in ReservationColumnValues(col) : ApiUpdateReservation(a, id, col, val)
  \/ \E a \in Users, id \in ResIds : ApiDeleteReservation(a, id)
  \/ \E id \in ResIds : CancelReservation(id)
  \/ \E a \in Users, row \in OfferRows : ApiInsertOffer(a, row)
  \/ \E a \in Users, id \in OfferIds, col \in OfferColumns :
       \E val \in OfferColumnValues(col) : ApiUpdateOffer(a, id, col, val)
  \/ \E a \in Users, id \in OfferIds : ApiDeleteOffer(a, id)
  \/ \E a \in Users, entry \in HistoryEntries : ApiInsertHistory(a, entry)

Next == ClientNext \/ AdminNext \/ ApiNext \/ Tick

Spec == Init /\ [][Next]_vars

\* Capacity at the database: offers as the create form's defaults give
\* them, reservation inserts of every amount in the name of u1 (u2's are
\* refused), u1's edits of the amount, row deletion, offer deletion.
CapacityPayloads ==
  [user_id        : {"u1"},
   cargo_offer_id : OfferIds,
   kilos_reserved : 1..MaxKilos,
   status         : {Default},
   tracking_code  : {Null}]

NextCapacity ==
  \/ ApiInsertOffer(Admin, defaultOffer)
  \/ \E a \in Clients, p \in CapacityPayloads, draw \in generate_tracking_code :
       ApiInsertReservation(a, p, draw)
  \/ \E id \in ResIds, v \in 1..MaxKilos :
       ApiUpdateReservation("u1", id, "kilos_reserved", v)
  \/ \E id \in ResIds : CancelReservation(id)
  \/ \E id \in OfferIds : ApiDeleteOffer(Admin, id)

SpecCapacity == Init /\ [][NextCapacity]_vars

\* Access at the database: the owner u1, another user u2 and the admin
\* against u1's reservations of one kilo, with the status and tracking_code
\* columns in play.
AccessPayloads ==
  [user_id        : {"u1"},
   cargo_offer_id : OfferIds,
   kilos_reserved : {1},
   status         : {Default, "in_transit"},
   tracking_code  : {Null} \cup CodeInputs]

NextAccess ==
  \/ ApiInsertOffer(Admin, defaultOffer)
  \/ \E a \in Users, p \in AccessPayloads, draw \in generate_tracking_code :
       ApiInsertReservation(a, p, draw)
  \/ \E a \in Users, id \in ResIds, col \in {"status", "tracking_code"} :
       \E val \in ReservationColumnValues(col) : ApiUpdateReservation(a, id, col, val)
  \/ \E a \in Users, id \in ResIds : ApiDeleteReservation(a, id)
  \/ \E id \in ResIds : CancelReservation(id)
  \/ \E a \in Users, id \in OfferIds : ApiDeleteOffer(a, id)

SpecAccess == Init /\ [][NextAccess]_vars

\* The status of u1's reservations of one kilo, the issuer drawing one and
\* the same code every time: the admin's status dialog, the users' own
\* updates of the status column, the clock, row deletion and the admin's
\* offer deletion.
StatusDraw == CodePrefix \o [i \in 1..CodeLen |-> chars[1]]

StatusPayloads ==
  [user_id        : {"u1"},
   cargo_offer_id : OfferIds,
   kilos_reserved : {1},
   status         : {Default},
   tracking_code  : {Null}]

NextStatus ==
  \/ ApiInsertOffer(Admin, defaultOffer)
  \/ \E p \in StatusPayloads : ApiInsertReservation("u1", p, StatusDraw)
  \/ \E id \in ResIds, s \in Statuses : handleUpdateStatus(id, s)
  \/ \E a \in Clients, id \in ResIds, s \in Statuses :
       ApiUpdateReservation(a, id, "status", s)
  \/ Tick
  \/ \E o \in OfferIds, c \in BOOLEAN : handleDeleteOffer(o, c)
  \/ \E id \in ResIds : CancelReservation(id)
  \/ \E id \in ResIds, o \in OfferIds \cup {MaxOffers + 1} :
       ApiUpdateReservation("u1", id, "cargo_offer_id", o)

SpecStatus == Init /\ [][NextStatus]_vars

\* Lookups by tracking code: u1's reservations of one kilo with the code
\* left to the issuer or given in the payload, u1's rewrites of the code,
\* and row deletion.
LookupPayloads ==
  [user_id        : {"u1"},
   cargo_offer_id : OfferIds,
   kilos_reserved : {1},
   status         : {Default},
   tracking_code  : {Null, ForeignCode}]

NextLookup ==
  \/ ApiInsertOffer(Admin, defaultOffer)
  \/ \E p \in LookupPayloads, draw \in generate_tracking_code :
       ApiInsertReservation("u1", p, draw)
  \/ \E id \in ResIds, val \in {Null, ForeignCode} :
       ApiUpdateReservation("u1", id, "tracking_code", val)
  \/ \E id \in ResIds : CancelReservation(id)

SpecLookup == Init /\ [][NextLookup]_vars

\* Offer writes by every signed-in user next to the reservations of u1 and u2
OfferWritePayloads ==
  [user_id        : Clients,
   cargo_offer_id : OfferIds,
   kilos_reserved : {1},
   status         : {Default},
   tracking_code  : {Null}]

\* What the callers without the admin role can send
ClientStep ==
  \/ \E a \in Clients : ApiInsertOffer(a, defaultOffer)
  \/ \E a \in Clients, o \in OfferIds, col \in OfferColumns :
       \E val \in OfferColumnValues(col) : ApiUpdateOffer(a, o, col, val)
  \/ \E a \in Clients, o \in OfferIds : ApiDeleteOffer(a, o)
  \/ \E a \in Clients, p \in OfferWritePayloads : ApiInsertReservation(a, p, StatusDraw)

NextOfferWrites ==
  \/ ApiInsertOffer(Admin, defaultOffer)
  \/ \E o \in OfferIds, col \in OfferColumns :
       \E val \in OfferColumnValues(col) : ApiUpdateOffer(Admin, o, col, val)
  \/ \E o \in OfferIds : ApiDeleteOffer(Admin, o)
  \/ \E id \in ResIds : CancelReservation(id)
  \/ ClientStep

SpecOfferWrites == Init /\ [][NextOfferWrites]_vars

\* Submissions of the two clients and status updates of the admin, each in
\* its two steps. A request that has left is answered: the await of
\* handleSubmit and of handleUpdateStatus resumes with a result or an error.
\* Requests start only while the rows they may write fit the model.
InFlight == Cardinality({u \in Clients : isSubmitting[u]})

NextCompletion ==
  \/ ApiInsertOffer(Admin, defaultOffer)
  \/ \E u \in Clients, o \in OfferIds : SelectOffer(u, o)
  \/ \E u \in Clients : resSeq + InFlight < MaxRes /\ SubmitBegin(u)
  \/ \E u \in Clients : SubmitEnd(u, StatusDraw)
  \/ \E id \in ResIds : handleOpenStatusModal(id)
  \/ \E v \in {"received_at_origin", "in_transit"} : setNewStatus(v)
  \/ Len(status_history) < MaxHist /\ handleUpdateStatusBegin
  \/ handleUpdateStatusEnd

SpecCompletion ==
  /\ Init
  /\ [][NextCompletion]_vars
  /\ \A u \in Clients : WF_vars(SubmitEnd(u, StatusDraw))
  /\ WF_vars(handleUpdateStatusEnd)

\* Status updates by the admin next to rows written into status_history
\* by every signed-in user
NextHistory ==
  \/ ApiInsertOffer(Admin, defaultOffer)
  \/ \E p \in StatusPayloads : ApiInsertReservation("u1", p, StatusDraw)
  \/ \E id \in ResIds, s \in Statuses : handleUpdateStatus(id, s)
  \/ \E a \in Users, entry \in HistoryEntries : ApiInsertHistory(a, entry)

SpecHistory == Init /\ [][NextHistory]_vars

\* The admin's offer dialog, opened for a new offer or on a listed one, its
\* two kilo inputs, save and cancel, while u1 reserves one kilo at a time
\* and reservation rows are deleted.
OfferFormPayloads ==
  [user_id        : {"u1"},
   cargo_offer_id : OfferIds,
   kilos_reserved : {1},
   status         : {Default},
   tracking_code  : {Null}]

NextOfferForm ==
  \/ \E o \in 0..MaxOffers : handleOpenOfferModal(o)
  \/ \E v \in 1..MaxKilos : TotalKilosChange(v)
  \/ \E v \in KiloInputs : AvailableKilosChange(v)
  \/ CloseOfferModal
  \/ handleSaveOffer
  \/ \E p \in OfferFormPayloads : ApiInsertReservation("u1", p, StatusDraw)
  \/ \E id \in ResIds : CancelReservation(id)

SpecOfferForm == Init /\ [][NextOfferForm]_vars

\* The reservation dialog of two clients against offers created with the
\* form's defaults, while the admin deactivates and deletes offers and
\* reservation rows are cancelled.
NextReserve ==
  \/ handleOpenOfferModal(0)
  \/ handleSaveOffer
  \/ ClientNext
  \/ \E id \in ResIds : CancelReservation(id)
  \/ \E o \in OfferIds, b \in BOOLEAN : ApiUpdateOffer(Admin, o, "is_active", b)
  \/ \E o \in OfferIds, c \in BOOLEAN : handleDeleteOffer(o, c)

SpecReserve == Init /\ [][NextReserve]_vars

\* ------------------------------------------------------------------ reads
\* A visitor who is not signed in: auth.uid() is NULL
Anon == "anon"

Readers == Users \cup {Anon}

\* a SELECT policy on reservations that admits everyone
reservations_select_policy_all(uid, row) == TRUE

\* "Users can view their own reservations" OR "Admins can view all
\* reservations"
reservations_select_policy(uid, row) ==
  \/ uid = row.user_id
  \/ has_role(uid, "admin")

\* "Users can view their reservation history" OR "Admins can view all
\* status history"
status_history_select_policy(uid, entry) ==
  \/ \E r \in DOMAIN reservations :
       r = entry.reservation_id /\ reservations[r].user_id = uid
  \/ has_role(uid, "admin")

\* SELECT ... FROM reservations WHERE id = id as uid: the ids returned
SelectReservationById(uid, id) ==
  {r \in DOMAIN reservations : r = id /\ reservations_select_policy(uid, reservations[r])}

\* SELECT ... FROM status_history WHERE reservation_id = id as uid
SelectHistory(uid, id) ==
  SelectSeq(status_history,
            LAMBDA h : h.reservation_id = id /\ status_history_select_policy(uid, h))

\* "Anyone can view active cargo offers" OR "Admins can view all cargo
\* offers"
cargo_offers_select_policy(uid, row) ==
  \/ row.is_active = TRUE
  \/ has_role(uid, "admin")

\* SELECT * FROM cargo_offers as uid: the ids returned
SelectOffers(uid) ==
  {o \in DOMAIN cargo_offers : cargo_offers_select_policy(uid, cargo_offers[o])}

\* ------------------------------------------------------------ Track page
\* the letters of the model and their lower-case forms
LowerCase == [c \in {"A", "B", "K", "G", "X"} |->
                CASE c = "A" -> "a" [] c = "B" -> "b" [] c = "K" -> "k"
                  [] c = "G" -> "g" [] c = "X" -> "x"]

\* String.prototype.toUpperCase left out: the text as typed
toUpperCase_identity(str) == str

\* String.prototype.toUpperCase
toUpperCase(str) ==
  [i \in 1..Len(str) |->
     IF \E c \in DOMAIN LowerCase : LowerCase[c] = str[i]
       THEN CHOOSE c \in DOMAIN LowerCase : LowerCase[c] = str[i]
       ELSE str[i]]

\* String.prototype.trim
RECURSIVE trim(_)
trim(str) ==
  IF str = <<>> THEN str
  ELSE IF Head(str) = " " THEN trim(Tail(str))
  ELSE IF str[Len(str)] = " " THEN trim(SubSeq(str, 1, Len(str) - 1))
  ELSE str

NotFound == [found |-> FALSE]

\* Track.handleSearch as uid on the text searchCode: the row it puts in
\* reservation, NotFound when maybeSingle() returns null (or the text is
\* blank and nothing is searched).
handleSearch(uid, searchCode) ==
  LET code == toUpperCase(trim(searchCode))
      hits == {r \in DOMAIN reservations :
                 /\ reservations_select_policy(uid, reservations[r])
                 /\ reservations[r].tracking_code = code}
  IN  IF trim(searchCode) = <<>> \/ hits = {} THEN NotFound
      ELSE LET r == CHOOSE h \in hits : TRUE
           IN  [found             |-> TRUE,
                id                |-> r,
                tracking_code     |-> reservations[r].tracking_code,
                kilos_reserved    |-> reservations[r].kilos_reserved,
                status            |-> reservations[r].status,
                status_updated_at |-> reservations[r].status_updated_at]

\* Texts typed into the search field or carried by the code parameter
TrackInputs == {StatusDraw, ForeignCode, <<" ">>}

\* handleSearch up to its await: nothing for a blank text, else
\* setIsLoading(true), setError(null), setSearched(true) and the query leaves.
handleSearchBegin(uid, searchCode) ==
  /\ searchSeq < MaxSearches
  /\ IF trim(searchCode) = <<>>
       THEN UNCHANGED trackVars
       ELSE /\ isLoading' = TRUE
            /\ error' = Null
            /\ searched' = TRUE
            /\ searchSeq' = searchSeq + 1
            /\ searches' = searches \cup
                 {[n |-> searchSeq + 1, uid |-> uid, searchCode |-> searchCode]}
            /\ UNCHANGED <<reservation, latest>>
  /\ UNCHANGED <<dbVars, modalVars, adminVars, offersVars, statusVars>>

\* handleSearch from its await on: the query runs in the database, or fails
\* on its way; setReservation(data), or setReservation(null) and setError;
\* then setIsLoading(false).
handleSearchEnd(call, failed) ==
  /\ call \in searches
  /\ LET data == IF failed THEN [found |-> FALSE, failed |-> TRUE]
                 ELSE handleSearch(call.uid, call.searchCode)
     IN  /\ IF data.found
              THEN /\ reservation' = data
                   /\ UNCHANGED error
              ELSE /\ reservation' = NotFound
                   /\ error' = IF failed THEN <<"Une erreur est survenue">>
                                ELSE <<"Aucun colis trouve avec ce code de suivi">>
         /\ latest' = IF call.n = searchSeq THEN data ELSE latest
  /\ isLoading' = FALSE
  /\ searches' = searches \ {call}
  /\ UNCHANGED <<dbVars, modalVars, adminVars, offersVars, statusVars, searched, searchSeq>>

\* The Track page of u1, who holds a reservation, searching by form and by
\* link
TrackCalls ==
  [n : 1..MaxSearches, uid : {"u1"}, searchCode : TrackInputs]

NextTrack ==
  \/ ApiInsertOffer(Admin, defaultOffer)
  \/ \E p \in StatusPayloads : ApiInsertReservation("u1", p, StatusDraw)
  \/ \E searchCode \in TrackInputs : handleSearchBegin("u1", searchCode)
  \/ \E call \in TrackCalls, failed \in BOOLEAN : handleSearchEnd(call, failed)
  \/ \E id \in ResIds : CancelReservation(id)

SpecTrack == Init /\ [][NextTrack]_vars

\* ----------------------------------------------------------- Offers page
\* String.prototype.toLowerCase
toLowerCase(str) ==
  [i \in 1..Len(str) |->
     IF str[i] \in DOMAIN LowerCase THEN LowerCase[str[i]] ELSE str[i]]

\* String.prototype.includes
includes(str, search) ==
  \E i \in 0..(Len(str) - Len(search)) :
    SubSeq(str, i + 1, i + Len(search)) = search

\* The query of fetchOffers without .gt('available_kilos', 0)
ActiveOffers_any_kilos ==
  {o \in SelectOffers(Anon) : cargo_offers[o].is_active = TRUE}

\* .eq('is_active', true).gt('available_kilos', 0): the ids selected
ActiveOffers ==
  {o \in SelectOffers(Anon) :
     /\ cargo_offers[o].is_active = TRUE
     /\ cargo_offers[o].available_kilos > 0}

\* .order('departure_date', { ascending: true }): the rows of ids in any
\* order the clause allows, rows of one date in either order
OrderByDepartureDate(ids) ==
  {list \in [1..Cardinality(ids) -> ids] :
     /\ \A i, j \in DOMAIN list : i # j => list[i] # list[j]
     /\ \A i, j \in DOMAIN list :
          i < j => cargo_offers[list[i]].departure_date
                     <= cargo_offers[list[j]].departure_date}

\* fetchOffers: setOffers(data)
fetchOffers ==
  /\ \E list \in OrderByDepartureDate(ActiveOffers) :
       offers' = [i \in DOMAIN list |-> [id |-> list[i], row |-> cargo_offers[list[i]]]]
  /\ UNCHANGED <<dbVars, modalVars, adminVars, searchTerm, statusVars, trackVars>>

\* onChange of the search input
SearchTerms == {<<>>, <<"A", "B">>, <<"g", "A">>, <<"a", "x">>}

setSearchTerm(term) ==
  /\ searchTerm' = term
  /\ UNCHANGED <<dbVars, modalVars, adminVars, offers, statusVars, trackVars>>

\* The filter callback of filteredOffers
filterOffer(offer) ==
  LET search == toLowerCase(searchTerm) IN
  \/ includes(toLowerCase(offer.row.departure_city), search)
  \/ includes(toLowerCase(offer.row.arrival_city), search)
  \/ includes(toLowerCase(offer.row.departure_country), search)
  \/ includes(toLowerCase(offer.row.arrival_country), search)

filteredOffers == SelectSeq(offers, filterOffer)

\* The Offers page over a table of MaxListed offers of any places and
\* dates, which the admin opens, closes, fills and empties meanwhile.
ListedRows ==
  [departure_city    : Cities,
   departure_country : {<<"X">>},
   arrival_city      : {<<"B", "a">>},
   arrival_country   : {<<"G", "a">>},
   departure_date    : DepartureDates,
   total_kilos       : {MaxKilos},
   available_kilos   : {MaxKilos},
   is_active         : {TRUE}]

InitListing ==
  /\ cargo_offers \in [1..MaxListed -> ListedRows]
  /\ offerSeq = MaxListed
  /\ reservations = EmptyTable
  /\ status_history = <<>>
  /\ resSeq = 0
  /\ issued = {}
  /\ modal = [u \in Clients |-> NoModal]
  /\ kilos = [u \in Clients |-> 1]
  /\ isSubmitting = [u \in Clients |-> FALSE]
  /\ editingOffer = 0
  /\ offerForm = defaultOffer
  /\ offerModalOpen = FALSE
  /\ recent = Other
  /\ now = 0
  /\ offers = <<>>
  /\ searchTerm = <<>>
  /\ selectedReservation = 0
  /\ newStatus = "pending_submission"
  /\ isSaving = FALSE
  /\ reservation = [found |-> FALSE]
  /\ error = Null
  /\ isLoading = FALSE
  /\ searched = FALSE
  /\ searches = {}
  /\ searchSeq = 0
  /\ latest = [found |-> FALSE]

NextListing ==
  \/ fetchOffers
  \/ \E term \in SearchTerms : setSearchTerm(term)
  \/ \E o \in 1..MaxListed, b \in BOOLEAN : ApiUpdateOffer(Admin, o, "is_active", b)
  \/ \E o \in 1..MaxListed, v \in {0, MaxKilos} :
       ApiUpdateOffer(Admin, o, "available_kilos", v)

SpecListing == InitListing /\ [][NextListing]_vars

\* ------------------------------------------------------------ properties
\* The reservations rows a step inserts
Created == DOMAIN reservations' \ DOMAIN reservations

\* SUM(kilos_reserved) over the reservations rows of offer o
KilosReservedOn(o) ==
  LET Sum[ids \in SUBSET ReservationsOf(o)] ==
        IF ids = {} THEN 0
        ELSE LET r == CHOOSE x \in ids : TRUE
             IN  reservations[r].kilos_reserved + Sum[ids \ {r}]
  IN  Sum[ReservationsOf(o)]

\* C1: whatever the interleaving of the clients' reserve calls (range check
\* on the available_kilos read earlier, then insert, then the trigger's
\* decrement), the kilos_reserved of an offer's reservations never add up to
\* more than the offer's total_kilos.
ReservedWithinTotal ==
  \A o \in DOMAIN cargo_offers : KilosReservedOn(o) <= cargo_offers[o].total_kilos

\* C2: in every reachable state every offer has
\* 0 <= available_kilos <= total_kilos.
AvailableWithinBounds ==
  \A o \in DOMAIN cargo_offers :
    /\ 0 <= cargo_offers[o].available_kilos
    /\ cargo_offers[o].available_kilos <= cargo_offers[o].total_kilos

\* C3: a reserve of k kilos succeeds only if 1 <= k <= the offer's
\* available_kilos at the moment it commits: every step that creates a
\* reservation finds that much available, and lowers it by exactly k.
ReserveChecksAtCommit ==
  [][\A r \in Created :
       LET k == reservations'[r].kilos_reserved
           o == reservations'[r].cargo_offer_id
       IN  /\ 1 <= k
           /\ k <= cargo_offers[o].available_kilos
           /\ cargo_offers'[o].available_kilos = cargo_offers[o].available_kilos - k]_vars

\* C4: a reserve against an offer whose is_active is false when it commits
\* creates no reservation: every step that creates a reservation finds its
\* offer active.
ReserveNeedsActiveOffer ==
  [][\A r \in Created : cargo_offers[reservations'[r].cargo_offer_id].is_active]_vars

\* C5: the reservation commit is all or nothing.  Whatever the state, a
\* reservation insert either creates exactly its row and takes exactly the
\* row's kilos_reserved off its offer's available_kilos, every other row and
\* offer as before, or leaves offers, reservations and history as they were.
CommitAllOrNothing ==
  \A a \in Clients, p \in CapacityPayloads, draw \in generate_tracking_code :
    ~ ENABLED
        /\ ApiInsertReservation(a, p, draw)
        /\ ~ \/ /\ Cardinality(Created) = 1
                /\ \A r \in Created :
                     /\ reservations'[r].kilos_reserved = p.kilos_reserved
                     /\ reservations'[r].cargo_offer_id = p.cargo_offer_id
                /\ \A r \in DOMAIN reservations :
                     r \in DOMAIN reservations' /\ reservations'[r] = reservations[r]
                /\ p.cargo_offer_id \in DOMAIN cargo_offers
                /\ cargo_offers' =
                     [cargo_offers EXCEPT ![p.cargo_offer_id].available_kilos =
                                            @ - p.kilos_reserved]
             \/ UNCHANGED <<cargo_offers, reservations, status_history>>

\* C5 witness: a reservation has just been committed and its kilos are off
\* the offer's available_kilos.
CommittedWithDecrement ==
  /\ recent.what = "reserved"
  /\ recent.id \in DOMAIN reservations
  /\ recent.offer \in DOMAIN cargo_offers
  /\ cargo_offers[recent.offer].available_kilos =
       recent.pre - reservations[recent.id].kilos_reserved

\* C6: right after a reservation is created, status_history holds exactly
\* one entry for it, and that entry's status is pending_submission.
OneHistoryEntryAtCreation ==
  [][\A r \in Created :
       LET entries == {i \in DOMAIN status_history' :
                         status_history'[i].reservation_id = r}
       IN  /\ Cardinality(entries) = 1
           /\ \A i \in entries : status_history'[i].status = "pending_submission"]_vars

\* C7: a reserve followed at once by the deletion of the reservation row
\* leaves the offer's available_kilos at its value before the reserve, and
\* the row is gone.
ReserveThenCancelRestores ==
  recent.what = "cancelled" /\ recent.offer \in DOMAIN cargo_offers
    => /\ cargo_offers[recent.offer].available_kilos = recent.pre
       /\ recent.id \notin DOMAIN reservations

\* C7 witness: a reservation was created and deleted at once, its offer
\* still there.
ReservedThenCancelled ==
  recent.what = "cancelled" /\ recent.offer \in DOMAIN cargo_offers

\* C8: a user's delete of a reservation goes through exactly when the user
\* owns the reservation and its status is pending_submission, or the user is
\* an admin.
CancelForOwnerWhilePendingAndAdmin ==
  \A a \in Users, id \in DOMAIN reservations :
    (ENABLED (ApiDeleteReservation(a, id) /\ id \notin DOMAIN reservations'))
      <=> \/ (a = reservations[id].user_id
                /\ reservations[id].status = "pending_submission")
          \/ has_role(a, "admin")

\* C9: no reservation is ever created with a tracking code that an earlier
\* reservation, deleted or not, was created with.
CodesNeverReissued ==
  [][\A r \in Created : reservations'[r].tracking_code \notin issued]_vars

\* C10: a reservation's tracking_code is set once, at creation, to a code of
\* the issuer, and no later step changes or clears it.
TrackingCodeSetOnce ==
  [][/\ \A r \in Created : reservations'[r].tracking_code \in generate_tracking_code
     /\ \A r \in DOMAIN reservations \cap DOMAIN reservations' :
          reservations'[r].tracking_code = reservations[r].tracking_code]_vars

\* C11: when the code the issuer draws already belongs to an existing
\* reservation while a free code remains, the reserve does not fail: the
\* reservation is still created.
IssuerRetriesOnCollision ==
  \A p \in CapacityPayloads, draw \in generate_tracking_code :
    (/\ resSeq < MaxRes
     /\ p.cargo_offer_id \in DOMAIN cargo_offers
     /\ CodeTaken(reservations, draw, {})
     /\ \E c \in generate_tracking_code : ~CodeTaken(reservations, c, {}))
      => ENABLED (ApiInsertReservation(p.user_id, p, draw) /\ Created # {})

\* C12: a transition that asks for the status the reservation already has
\* is a no-op: status_history gets no entry and status_updated_at keeps its
\* value.
SameStatusIsNoOp ==
  [][\A id \in DOMAIN reservations \cap DOMAIN reservations' :
       recent' = Updated(id, reservations'[id].status)
         => /\ status_history' = status_history
            /\ reservations'[id].status_updated_at = reservations[id].status_updated_at]_vars

\* C12 witness: the latest statement set a reservation that had left
\* pending_submission to the status it already had, later than that status
\* was given.
SameStatusRequested ==
  /\ recent.what = "updated"
  /\ recent.id \in DOMAIN reservations
  /\ reservations[recent.id].status = recent.pre
  /\ recent.pre # "pending_submission"
  /\ reservations[recent.id].status_updated_at < now

\* a note an admin may want recorded with a transition
NotesInputs == {Null, <<"n">>}

\* C13: a transition to a different status appends exactly one
\* status_history entry for the reservation, with the new status and the
\* notes supplied with the transition, whatever they are, and sets
\* status_updated_at to the time of the change.
TransitionLogsStatusAndNotes ==
  \A id \in DOMAIN reservations, n \in NotesInputs :
    \A s \in Statuses \ {reservations[id].status} :
      Len(status_history) < MaxHist
        => ENABLED /\ handleUpdateStatus(id, s)
                   /\ status_history' =
                        Append(status_history,
                               [reservation_id |-> id, status |-> s, notes |-> n])
                   /\ reservations'[id].status_updated_at = now

\* the position of a status in shipment_status
StatusIndex(s) == CHOOSE i \in 1..Len(shipment_status) : shipment_status[i] = s

\* C14: a reservation's status only ever moves to the next status of
\* pending_submission, received_at_origin, in_transit,
\* arrived_at_destination, delivered; delivered is final.
StatusMovesToSuccessor ==
  [][\A id \in DOMAIN reservations \cap DOMAIN reservations' :
       reservations'[id].status # reservations[id].status
         => StatusIndex(reservations'[id].status) =
              StatusIndex(reservations[id].status) + 1]_vars

\* C15: no user without the admin role can give a reservation a status:
\* none of their updates changes the status of a reservation, and none of
\* their inserts creates a reservation in a status other than
\* pending_submission.
OnlyAdminsSetStatus ==
  \A a \in {u \in Users : ~has_role(u, "admin")} :
    /\ \A id \in DOMAIN reservations, s \in Statuses :
         ~ ENABLED /\ ApiUpdateReservation(a, id, "status", s)
                   /\ reservations'[id].status # reservations[id].status
    /\ \A p \in AccessPayloads, draw \in generate_tracking_code :
         ~ ENABLED /\ ApiInsertReservation(a, p, draw)
                   /\ \E r \in Created : reservations'[r].status # "pending_submission"

\* C16: once a reservation has left pending_submission every write of its
\* owner leaves the row as it was, and a write of an admin changes no field
\* of the row but its status (and the time of the status).
OwnerWhilePendingAdminStatusOnly ==
  \A id \in DOMAIN reservations, col \in {"status", "tracking_code"} :
    \A val \in ReservationColumnValues(col) :
      /\ reservations[id].status # "pending_submission"
           /\ ~has_role(reservations[id].user_id, "admin")
           => ~ ENABLED /\ ApiUpdateReservation(reservations[id].user_id, id, col, val)
                        /\ reservations' # reservations
      /\ ~ ENABLED /\ ApiUpdateReservation(Admin, id, col, val)
                   /\ \E f \in {"user_id", "cargo_offer_id", "kilos_reserved",
                                "tracking_code"} :
                        reservations'[id][f] # reservations[id][f]

\* C17: the lookup of a reservation by its tracking code succeeds for every
\* actor, signed in or not, owner or not, and what it returns does not hold
\* the owner's user id.
LookupOpenToAll ==
  \A actor \in Readers, r \in DOMAIN reservations :
    reservations[r].tracking_code # Null
      => LET res == handleSearch(actor, reservations[r].tracking_code)
         IN  /\ res.found
             /\ res.id = r
             /\ "user_id" \notin DOMAIN res

\* the ways to type one symbol in either letter case
CaseForms(c) ==
  {c} \cup {LowerCase[u] : u \in {v \in DOMAIN LowerCase : v = c}}
      \cup {u \in DOMAIN LowerCase : LowerCase[u] = c}

\* the texts that differ from code only in letter case
RECURSIVE Typed(_)
Typed(code) ==
  IF code = <<>> THEN {<<>>}
  ELSE {<<c>> \o t : c \in CaseForms(Head(code)), t \in Typed(Tail(code))}

\* ... and in blanks around it
CaseVariants(code) ==
  UNION {{t, <<" ">> \o t, t \o <<" ">>, <<" ">> \o t \o <<" ">>} : t \in Typed(code)}

\* C18: for a stored tracking code and any text that differs from it only in
\* letter case and surrounding blanks, the lookup returns what the lookup by
\* the code itself returns.
LookupIgnoresCase ==
  \A actor \in Readers, r \in DOMAIN reservations :
    reservations[r].tracking_code # Null
      => LET byCode == handleSearch(actor, reservations[r].tracking_code)
         IN  \A t \in CaseVariants(reservations[r].tracking_code) :
               handleSearch(actor, t) = byCode

\* C18 witness: a reservation whose owner finds it by its code typed in
\* lower case with blanks around it.
FoundInLowerCase ==
  \E r \in DOMAIN reservations :
    LET code == reservations[r].tracking_code
        t    == <<" ">> \o [i \in 1..Len(code) |->
                              IF code[i] \in DOMAIN LowerCase
                                THEN LowerCase[code[i]] ELSE code[i]] \o <<" ">>
    IN  /\ code # Null
        /\ t # code
        /\ handleSearch(reservations[r].user_id, t).found
        /\ handleSearch(reservations[r].user_id, t).id = r

\* C19: a reservation and its status history are read by its owner and by
\* admins, and by nobody else: any other caller's read of the reservation
\* by id and of its history returns nothing.
ReadsForOwnerAndAdminOnly ==
  \A u \in Readers, id \in DOMAIN reservations :
    IF u = reservations[id].user_id \/ has_role(u, "admin")
      THEN /\ SelectReservationById(u, id) = {id}
           /\ SelectHistory(u, id) =
                SelectSeq(status_history, LAMBDA h : h.reservation_id = id)
      ELSE /\ SelectReservationById(u, id) = {}
           /\ SelectHistory(u, id) = <<>>

\* C19 witness: a reservation with history that its owner reads, and a
\* signed-in user who is neither its owner nor an admin.
HistoryToHide ==
  \E id \in DOMAIN reservations, u \in Users :
    /\ SelectHistory(reservations[id].user_id, id) # <<>>
    /\ u # reservations[id].user_id
    /\ ~has_role(u, "admin")

\* the status_history entries of reservation id
HistoryOf(hist, id) == SelectSeq(hist, LAMBDA h : h.reservation_id = id)

\* C20: status_history is append-only: no step changes or removes an entry
\* already written, so the entries of a reservation before a step are a
\* prefix of its entries after it.
HistoryAppendOnly ==
  [][\A id \in ResIds :
       LET before == HistoryOf(status_history, id)
           after  == HistoryOf(status_history', id)
       IN  /\ Len(before) <= Len(after)
           /\ SubSeq(after, 1, Len(before)) = before]_vars

\* C21: an offer's available_kilos changes only through the reservation
\* trigger: no save of the admin's offer dialog on an existing offer, however
\* long ago the dialog was opened, changes the offer's available_kilos.
SaveKeepsAvailableKilos ==
  ~ ENABLED /\ handleSaveOffer
            /\ \E o \in DOMAIN cargo_offers \cap DOMAIN cargo_offers' :
                 cargo_offers'[o].available_kilos # cargo_offers[o].available_kilos

\* C26: every offer the admin's create flow inserts has available_kilos
\* equal to total_kilos, whatever was typed into the dialog before saving.
CreatedWithAllAvailable ==
  [][\A o \in DOMAIN cargo_offers' \ DOMAIN cargo_offers :
       cargo_offers'[o].available_kilos = cargo_offers'[o].total_kilos]_vars


\* An offer row without its available_kilos
OfferButAvailable(row) == [row EXCEPT !.available_kilos = 0]

Places(offer) ==
  {offer.row.departure_city, offer.row.arrival_city,
   offer.row.departure_country, offer.row.arrival_country}

\* C23: a fetch of the Offers page returns exactly the offers that are
\* active with available_kilos > 0 at that moment, each once, as the table
\* has them, by ascending departure date; the search keeps, in order,
\* exactly the fetched offers one of whose cities or countries contains the
\* term in some letter case, and all of them for the empty term.
ListingShowsOpenOffersByDate ==
  /\ ~ ENABLED /\ fetchOffers
               /\ ~ /\ {offers'[i].id : i \in DOMAIN offers'} =
                         {o \in DOMAIN cargo_offers :
                            /\ cargo_offers[o].is_active
                            /\ cargo_offers[o].available_kilos > 0}
                    /\ \A i, j \in DOMAIN offers' :
                         i < j => /\ offers'[i].id # offers'[j].id
                                  /\ offers'[i].row.departure_date
                                       <= offers'[j].row.departure_date
                    /\ \A i \in DOMAIN offers' :
                         offers'[i].row = cargo_offers[offers'[i].id]
  /\ LET kept == {i \in DOMAIN offers :
                    \E place \in Places(offers[i]), term \in Typed(searchTerm) :
                      \E k \in 0..(Len(place) - Len(term)) :
                        \A n \in 1..Len(term) : place[k + n] = term[n]}
     IN /\ Len(filteredOffers) = Cardinality(kept)
        /\ \A i, j \in kept :
             i < j => \E m, n \in DOMAIN filteredOffers :
                        m < n /\ filteredOffers[m] = offers[i]
                              /\ filteredOffers[n] = offers[j]
        /\ \A i \in kept : \E m \in DOMAIN filteredOffers : filteredOffers[m] = offers[i]
        /\ searchTerm = <<>> => filteredOffers = offers

\* Two offers listed by date, the later inserted first, next to a closed or
\* empty one, with a search in capitals that keeps one of the two
ListedByDateAndSearched ==
  /\ Len(offers) = 2
  /\ offers[1].id > offers[2].id
  /\ offers[1].row.departure_date < offers[2].row.departure_date
  /\ Len(filteredOffers) = 1
  /\ searchTerm = <<"A", "B">>
  /\ \E o \in DOMAIN cargo_offers : cargo_offers[o].available_kilos = 0


\* C24: the admin may move a reservation from pending_submission straight
\* to in_transit: the update is accepted, the status becomes in_transit and
\* exactly one entry, for in_transit, is appended to the history, none for
\* received_at_origin.
AdminMaySkipToInTransit ==
  \A id \in DOMAIN reservations :
    reservations[id].status = "pending_submission" =>
      ~ ENABLED /\ handleUpdateStatus(id, "in_transit")
                /\ ~ /\ reservations'[id].status = "in_transit"
                     /\ Len(status_history') = Len(status_history) + 1
                     /\ SubSeq(status_history', 1, Len(status_history)) = status_history
                     /\ status_history'[Len(status_history')].reservation_id = id
                     /\ status_history'[Len(status_history')].status = "in_transit"

\* A reservation just moved from pending_submission to in_transit, with
\* that one entry in its history
SkippedToInTransit ==
  \E id \in DOMAIN reservations :
    /\ recent = Updated(id, "pending_submission")
    /\ reservations[id].status = "in_transit"
    /\ HistoryOf(status_history, id) = <<[reservation_id |-> id, status |-> "in_transit", notes |-> Null]>>

\* C25: every reservation refers to an existing offer and every history
\* entry to an existing reservation; deleting an offer removes, in the same
\* step, the offer, its reservations and their history entries and nothing
\* else; a delete the admin does not confirm changes nothing.
ReferencesResolve ==
  /\ \A r \in DOMAIN reservations : reservations[r].cargo_offer_id \in DOMAIN cargo_offers
  /\ \A i \in DOMAIN status_history : status_history[i].reservation_id \in DOMAIN reservations
  /\ \A o \in DOMAIN cargo_offers :
       /\ ~ ENABLED /\ handleDeleteOffer(o, FALSE)
                    /\ <<cargo_offers, reservations, status_history>>'
                         # <<cargo_offers, reservations, status_history>>
       /\ ~ ENABLED /\ handleDeleteOffer(o, TRUE)
                    /\ ~ /\ DOMAIN cargo_offers' = DOMAIN cargo_offers \ {o}
                         /\ DOMAIN reservations' =
                              {r \in DOMAIN reservations : reservations[r].cargo_offer_id # o}
                         /\ \A r \in DOMAIN reservations' : reservations'[r] = reservations[r]
                         /\ \A i \in DOMAIN status_history' :
                              status_history'[i].reservation_id \in DOMAIN reservations'
                         /\ \A r \in DOMAIN reservations' :
                              HistoryOf(status_history', r) = HistoryOf(status_history, r)

\* An offer about to be deleted that has a reservation with history
OfferWithHistoryToDelete ==
  \E o \in DOMAIN cargo_offers, r \in DOMAIN reservations :
    /\ reservations[r].cargo_offer_id = o
    /\ HistoryOf(status_history, r) # <<>>
    /\ ENABLED /\ handleDeleteOffer(o, TRUE)
               /\ status_history' # status_history


\* C27: every reservation submission and every admin status update that
\* has started completes, with a commit or an error, and isSubmitting,
\* respectively isSaving, is false again.
RequestsComplete ==
  /\ \A u \in Clients : isSubmitting[u] ~> ~isSubmitting[u]
  /\ isSaving ~> ~isSaving

\* A submission and a status update in flight, the submission about to fail
\* on its tracking code
RequestsInFlight ==
  /\ isSaving
  /\ \E u \in Clients :
       /\ isSubmitting[u]
       /\ \E r \in DOMAIN reservations : reservations[r].tracking_code = StatusDraw


\* C28: in every state, for every offer, available_kilos plus the
\* kilos_reserved of its reservations equals total_kilos, also after owner
\* edits of kilos_reserved or cargo_offer_id and after admin offer updates.
CapacityConserved ==
  \A o \in DOMAIN cargo_offers :
    cargo_offers[o].available_kilos + KilosReservedOn(o) = cargo_offers[o].total_kilos


\* C29: for every reservation with at least one history entry, the latest
\* entry's status is the reservation's current status (as it is when the
\* entries are, in order, the statuses the reservation was changed to).
LatestEntryIsCurrentStatus ==
  \A id \in DOMAIN reservations :
    LET entries == HistoryOf(status_history, id) IN
    entries # <<>> => entries[Len(entries)].status = reservations[id].status


\* C30: on the Track page, once every search that was started has
\* completed, what is displayed is what the search started last got back
\* (its reservation, or no reservation and a message), and exactly one of
\* "a reservation is shown" and "an error message is set" holds.
TrackShowsLatestSearch ==
  (searches = {} /\ searchSeq > 0) =>
    /\ IF latest.found THEN reservation = latest
                       ELSE ~reservation.found /\ error # Null
    /\ reservation.found # (error # Null)

====
